---- MODULE Spec2Model ----
(***************************************************************************)
(* Steamdle server: the GET /api/daily-game pipeline of src/public/script.js *)
(* (daily selection with last_played_on rotation, review acquisition and   *)
(* the single-slot date-keyed cache), as a state machine over concurrent   *)
(* requests whose steps interleave at the handler's await points.          *)
(***************************************************************************)
EXTENDS Integers, Sequences, FiniteSets, TLC

\* ------------------------------------------------------------------ bounds
NumGames == 2      \* rows of table games
FirstDay == 2      \* the date the clock starts on; the date before is yesterday
NumDays  == 2      \* dates the clock runs through
MaxRows  == 7      \* most rows of table game_reviews one game has
MaxTokens == 4     \* most tokens of one text of a review page
MaxChars == 2      \* most characters of an app name or of a search term
MaxApps  == 2      \* most entries of the app-list cache
MaxTicks == 4      \* half days the clock of the app-list cache runs through

\* ------------------------------------------------------ program constants
ClueLimit == 6     \* LIMIT 6 of the review-url query
SeedRows  == 6     \* review urls the seed list gives each game
DefaultLimit == 15 \* suggestions returned when the query names no limit
MaxGuesses == 6    \* guesses the front-end gives a game
Undefined == -1    \* a variable of the front-end declared without a value
CacheDuration == 2 \* STEAM_APPS_CACHE_DURATION, the clock counting half days
StartClock == 3    \* Date.now() when the process starts: far from time 0

NULL     == 0                       \* SQL NULL / JS null for a date
Yesterday == FirstDay - 1
LastDay  == FirstDay + NumDays - 1
Days     == 1..LastDay
Ids      == 1..NumGames
\* two requests can be in the handler at once
Requests == {"r1", "r2"}

MsgNoGames  == "No games available to select for today."
MsgInternal == "Internal server error while selecting daily game."
MsgReviews  == "Failed to process game reviews."
MsgReviewsDefault == "Failed to process reviews for the daily game."
MsgCached   == "Failed to get daily game data (cached error)."
MsgScrape   == "Scraping failed"

VARIABLES
    games,           \* table games: id -> [is_active, last_played_on]
    today,           \* the calendar date new Date() falls on
    dailyGameCache,  \* the process-wide cache slot {date, gameData}
    req,             \* per request: position in the handler and its locals
    marks,           \* history: date -> number of UPDATEs that wrote that date
    out,             \* the response this step sent (if any), with what its request did
    lastOk,          \* history: the latest noted response of this process on today's date
                     \* (200s under "lastOk", 500s under "lastErr")
    track,           \* which of the histories this specification keeps
    acq,             \* one call of getAndScrapeReviewDataForGame followed fetch by
                     \* fetch (only in SpecAcq; elsewhere the call is one step)
    seed,            \* seedInitialData: its position and the rows of game_reviews
                     \* per game (only in SpecSeed)
    calc,            \* one application of a pure function: its input and result
    page,            \* the front-end of one page load: its game state and the
                     \* parts of the document it writes (only in SpecPage)
    apps             \* the app-list cache of the autocomplete, its fetch time,
                     \* the clock and the search requests (only in SpecApps)

vars == <<games, today, dailyGameCache, req, marks, out, lastOk, track, acq,
          seed, calc, page, apps>>

\* --------------------------------------------------------------- catalog
GameTitle(id)  == id
SteamAppId(id) == id * 10

\* table game_reviews: the review_page_url rows of a game in clue_order.
\* Row k of game id is the locator <<id, k>>; odd games have one row, even
\* games none.
RowCount(id)   == id % 2
ReviewRows(id) == [k \in 1..RowCount(id) |-> <<id, k>>]

Active(gs) == {g \in Ids : gs[g].is_active}

\* ----------------------------------------------------------- cache slot
NoData    == [null |-> TRUE]
EmptySlot == [date |-> NULL, gameData |-> NoData]
IsData(d)  == "null" \notin DOMAIN d
IsError(d) == "error" \in DOMAIN d /\ d.error = TRUE

IdleReq == [pc |-> "idle", todayStr |-> NULL, game |-> 0, via |-> "none",
            pickedLpo |-> NULL, work |-> {}, expect |-> NoData, quiet |-> FALSE]

\* a response: the request's locals when it was sent, its status and body
Response(me, status, body) ==
    [todayStr |-> me.todayStr, game |-> me.game, via |-> me.via,
     pickedLpo |-> me.pickedLpo, work |-> me.work, expect |-> me.expect,
     quiet |-> me.quiet, status |-> status, body |-> body]
NoOut == Response(IdleReq, 0, NoData)

NoOk == [date |-> NULL, body |-> NoData, quiet |-> FALSE]

InFlight(r) == req[r].pc # "idle"

\* ------------------------------------------------------- the SQL of A-D
\* A: SELECT ... WHERE last_played_on = ? AND is_active = TRUE
PreSelectedAnyDate(gs, d) ==
    {g \in Ids : gs[g].is_active /\ gs[g].last_played_on # NULL}
PreSelected(gs, d) == {g \in Ids : gs[g].is_active /\ gs[g].last_played_on = d}

\* B: SELECT ... WHERE last_played_on IS NULL AND is_active = TRUE
\*    ORDER BY RANDOM() LIMIT 1
UnplayedOrPlayed(gs) == {g \in Ids : gs[g].is_active}
UnplayedOrInactive(gs) == {g \in Ids : gs[g].last_played_on = NULL}
Unplayed(gs) == {g \in Ids : gs[g].is_active /\ gs[g].last_played_on = NULL}

\* C: SELECT ... WHERE is_active = TRUE ORDER BY last_played_on ASC, RANDOM()
\*    LIMIT 1   (SQLite sorts NULL first, and NULL is the least date here)
MostRecent(gs) ==
    {g \in Ids : /\ gs[g].is_active
                 /\ \A h \in Ids : gs[h].is_active =>
                        gs[g].last_played_on >= gs[h].last_played_on}
LeastRecentOfAll(gs) ==
    {g \in Ids : \A h \in Ids : gs[g].last_played_on <= gs[h].last_played_on}
LeastRecent(gs) ==
    {g \in Ids : /\ gs[g].is_active
                 /\ \A h \in Ids : gs[h].is_active =>
                        gs[g].last_played_on <= gs[h].last_played_on}

\* D: UPDATE games SET last_played_on = ? WHERE id = ?
MarkNothing(gs, id, d) == gs
MarkPlayed(gs, id, d) == [gs EXCEPT ![id].last_played_on = d]

\* where the handler goes once a query has produced a row: a pre-selected
\* game goes straight to the reviews, a newly selected one through D first
AfterSelectSkipUpdate(via) == "urls"
AfterSelect(via) == IF via = "A" THEN "urls" ELSE "D"

\* the cache check at the top of the handler
CacheHitPayloadsOnly(cache, d) ==
    cache.date = d /\ IsData(cache.gameData) /\ ~IsError(cache.gameData)
CacheHitAnyDate(cache, d) == IsData(cache.gameData)
CacheHitErrorsOnly(cache, d) ==
    cache.date = d /\ IsData(cache.gameData) /\ IsError(cache.gameData)
CacheHit(cache, d) == cache.date = d /\ IsData(cache.gameData)

\* ------------------------------------------------------ payloads, bodies
ErrorDataNoMessage(msg) == [error |-> TRUE]
ErrorData(msg) == [error |-> TRUE, message |-> msg]

\* what getAndScrapeReviewDataForGame returns
GameDataNotEmpty(id, reviews) ==
    IF reviews = <<>>
    THEN [error |-> TRUE, message |-> MsgReviews, title |-> GameTitle(id),
          appId |-> SteamAppId(id), reviews |-> <<>>]
    ELSE [title |-> GameTitle(id), appId |-> SteamAppId(id), reviews |-> reviews]
GameDataStrict(id, reviews) ==
    IF \E i \in DOMAIN reviews : IsError(reviews[i])
    THEN [error |-> TRUE, message |-> MsgReviews, title |-> GameTitle(id),
          appId |-> SteamAppId(id), reviews |-> <<>>]
    ELSE [title |-> GameTitle(id), appId |-> SteamAppId(id), reviews |-> reviews]
GameData(id, reviews) ==
    [title |-> GameTitle(id), appId |-> SteamAppId(id), reviews |-> reviews]
ReviewsFailedData(id) ==
    [error |-> TRUE, message |-> MsgReviews, title |-> GameTitle(id),
     appId |-> SteamAppId(id), reviews |-> <<>>]

\* what scrapeSteamReview resolves to for locator u
ScrapeOk(u)   == [reviewerName |-> "A Steam User", reviewText |-> u]
ScrapeFailNoLocator(u) ==
    [error |-> TRUE, message |-> MsgScrape, originalUrl |-> <<>>,
     reviewerName |-> "Error"]
ScrapeFail(u) == [error |-> TRUE, message |-> MsgScrape, originalUrl |-> u,
                  reviewerName |-> "Error"]

\* ORDER BY clue_order ASC LIMIT 6
LimitNone(rows) == rows
Limit(rows) ==
    IF Len(rows) <= ClueLimit THEN rows ELSE SubSeq(rows, 1, ClueLimit)

\* the first ClueLimit review urls of a game, in clue_order
ReviewUrls(id) == Limit(ReviewRows(id))

\* the rows of game_reviews of a game that has n of them
ReviewRowsOf(id, n) == [k \in 1..n |-> <<id, k>>]

\* a promise of scrapeSteamReview that has not resolved yet
Pending == [pending |-> TRUE]

\* Promise.all keeps each result at the index of its promise
ResolveNextFree(rec, i, v) ==
    LET j == CHOOSE k \in DOMAIN rec :
                 rec[k] = Pending /\ \A l \in 1..(k - 1) : rec[l] # Pending
    IN  [rec EXCEPT ![j] = v]
Resolve(rec, i, v) == [rec EXCEPT ![i] = v]

\* Promise.all resolves when every promise has
SomeResolved(rec) == \E i \in DOMAIN rec : rec[i] # Pending
AllResolved(rec) == \A i \in DOMAIN rec : rec[i] # Pending

IdleAcq == [pc |-> "idle", game |-> 0, n |-> 0, urls |-> <<>>, started |-> {},
            rec |-> <<>>, outOfOrder |-> FALSE, failed |-> FALSE, dead |-> 0]

\* seeding not running, no pure function applied
IdleSeed == [pc |-> "idle", game |-> 0, rows |-> [g \in Ids |-> 0],
             obsolete |-> {}, deleted |-> {}, foreignKeys |-> TRUE]
IdleCalc == [fn |-> "none", arg |-> NoData, result |-> NoData]

\* the front-end when its script has run and the daily game is being fetched:
\* currentGame, currentReviewIndex, guessesLeft and isGameOver are declared
\* without a value (isGameOver is only ever tested for truth)
IdlePage == [event |-> "none", status |-> 0, currentGame |-> NoData,
             currentReviewIndex |-> Undefined, guessesLeft |-> Undefined,
             isGameOver |-> FALSE, shareGrid |-> <<>>,
             previousGuesses |-> <<>>, shown |-> {}, input |-> <<>>,
             disabled |-> FALSE, outcome |-> "none"]

\* the server module loaded: empty app list, fetch time 0, no search request
IdleApps == [pc |-> "starting", steamAppsCache |-> <<>>,
             lastSteamAppsFetchTime |-> 0, now |-> StartClock,
             search |-> [r \in Requests |-> "idle"], outcome |-> "none",
             served |-> NoData]

\* e.message || fallback
OrElse(d, fallback) ==
    IF "message" \in DOMAIN d /\ d.message # "" THEN d.message ELSE fallback

Others(r) == Requests \ {r}
Quiet(r)  == \A o \in Others(r) : ~InFlight(o)

\* a step that sends no response
Quietly == out' = NoOut /\ UNCHANGED <<track, seed, calc, page, apps>>
Silent == Quietly /\ UNCHANGED acq

\* history bookkeeping of a completed response
NoteResp(r, status, body, d) ==
    IF \/ status = 200 /\ "lastOk" \in track
       \/ status = 500 /\ "lastErr" \in track
    THEN lastOk' = [date |-> d, body |-> body, quiet |-> Quiet(r)]
    ELSE UNCHANGED lastOk

\* res.json / res.status(500).json at the end of a build: the response goes
\* out and the request is over
Respond(r, did, status, body) ==
    /\ out' = Response([req[r] EXCEPT !.work = @ \cup did], status, body)
    /\ req' = [req EXCEPT ![r] = IdleReq]
    /\ NoteResp(r, status, body, req[r].todayStr)
    /\ UNCHANGED <<track, seed, calc, page, apps>>

\* ---------------------------------------------------------------- Init
Catalog ==
    /\ games \in [Ids -> [is_active : BOOLEAN, last_played_on : {NULL, Yesterday}]]
    /\ \A g, h \in Ids :
          (g # h /\ games[g].last_played_on # NULL) =>
              games[g].last_played_on # games[h].last_played_on
    /\ today = FirstDay
    /\ dailyGameCache = EmptySlot
    /\ req = [r \in Requests |-> IdleReq]
    /\ marks = [d \in Days |-> 0]
    /\ out = NoOut
    /\ lastOk = NoOk
    /\ acq = IdleAcq
    /\ seed = IdleSeed
    /\ page = IdlePage
    /\ apps = IdleApps
    /\ calc = IdleCalc

Init     == Catalog /\ track = {}
InitOk   == Catalog /\ track = {"lastOk"}
InitMark == Catalog /\ track = {"marks"}
InitErr  == Catalog /\ track = {"lastErr"}

\* ------------------------------------------------------------- actions
\* lines 1139-1152: todayStr and the cache check, synchronously
Start(r) ==
    /\ req[r].pc = "idle"
    /\ LET d  == today
           me == [IdleReq EXCEPT !.todayStr = d,
                     !.expect = IF lastOk.date = d THEN lastOk.body ELSE NoData,
                     !.quiet  = lastOk.date = d /\ lastOk.quiet]
       IN  IF CacheHit(dailyGameCache, d)
           THEN LET data   == dailyGameCache.gameData
                    status == IF IsError(data) THEN 500 ELSE 200
                    body   == IF IsError(data)
                              THEN [error |-> OrElse(data, MsgCached)]
                              ELSE data
                IN  /\ out' = Response(me, status, body)
                    /\ NoteResp(r, status, body, d)
                    /\ UNCHANGED <<req, track, acq, seed, calc, page, apps>>
           ELSE /\ req' = [req EXCEPT ![r] = [me EXCEPT !.pc = "A"]]
                /\ UNCHANGED <<lastOk>>
                /\ Silent
    /\ UNCHANGED <<games, today, dailyGameCache, marks>>

\* a query result that is a row: remember it and move on
Select(r, g, via) ==
    req' = [req EXCEPT ![r].game = g, ![r].via = via,
                       ![r].pickedLpo = games[g].last_played_on,
                       ![r].work = @ \cup {"query"},
                       ![r].pc = AfterSelect(via)]

\* lines 1156-1165, block A
QueryA(r) ==
    /\ req[r].pc = "A"
    /\ LET rows == PreSelected(games, req[r].todayStr)
       IN  IF rows # {}
           THEN \E g \in rows : Select(r, g, "A")
           ELSE req' = [req EXCEPT ![r].pc = "B", ![r].work = @ \cup {"query"}]
    /\ UNCHANGED <<games, today, dailyGameCache, marks, lastOk>>
    /\ Silent

\* lines 1166-1173, block B
QueryB(r) ==
    /\ req[r].pc = "B"
    /\ LET rows == Unplayed(games)
       IN  IF rows # {}
           THEN \E g \in rows : Select(r, g, "B")
           ELSE req' = [req EXCEPT ![r].pc = "C", ![r].work = @ \cup {"query"}]
    /\ UNCHANGED <<games, today, dailyGameCache, marks, lastOk>>
    /\ Silent

\* lines 1175-1183 block C, and lines 1197-1201 when it finds no row
QueryC(r) ==
    /\ req[r].pc = "C"
    /\ LET rows == LeastRecent(games)
           d    == req[r].todayStr
       IN  IF rows # {}
           THEN /\ \E g \in rows : Select(r, g, "C")
                /\ UNCHANGED <<dailyGameCache, lastOk>>
                /\ Silent
           ELSE LET data == ErrorData(MsgNoGames)
                IN  /\ dailyGameCache' = [date |-> d, gameData |-> data]
                    /\ Respond(r, {"query"}, 500, data)
                    /\ UNCHANGED acq
    /\ UNCHANGED <<games, today, marks>>

\* lines 1185-1193, block D, the UPDATE succeeding
UpdateD(r) ==
    /\ req[r].pc = "D"
    /\ games' = MarkPlayed(games, req[r].game, req[r].todayStr)
    /\ marks' = IF "marks" \in track
                 THEN [marks EXCEPT ![req[r].todayStr] = @ + 1]
                 ELSE marks
    /\ req' = [req EXCEPT ![r].pc = "urls", ![r].work = @ \cup {"update"}]
    /\ UNCHANGED <<today, dailyGameCache, lastOk>>
    /\ Silent

\* lines 1218-1222: a rejected query or UPDATE of A-D lands in the catch
Catch(r, what) ==
    LET d    == req[r].todayStr
        data == ErrorData(MsgInternal)
    IN  /\ dailyGameCache' = [date |-> d, gameData |-> data]
        /\ Respond(r, {what}, 500, data)
        /\ UNCHANGED <<games, today, marks, acq>>

QueryFails(r) ==
    /\ req[r].pc \in {"A", "B", "C"}
    /\ Catch(r, "queryFailed")

UpdateFails(r) ==
    /\ req[r].pc = "D"
    /\ Catch(r, "updateFailed")

\* lines 1205-1216 with the result of getAndScrapeReviewDataForGame
Deliver(r, did, data) ==
    LET d      == req[r].todayStr
        status == IF IsError(data) THEN 500 ELSE 200
        body   == IF IsError(data) THEN [error |-> OrElse(data, MsgReviewsDefault)]
                                   ELSE data
    IN  /\ dailyGameCache' = [date |-> d, gameData |-> data]
        /\ Respond(r, did, status, body)
        /\ UNCHANGED <<games, today, marks>>

\* lines 1100-1117: the review-url query; an entry without urls is answered
\* at once, otherwise every url is fetched (line 1119)
QueryUrls(r) ==
    /\ req[r].pc = "urls"
    /\ LET urls == ReviewUrls(req[r].game)
       IN  IF Len(urls) = 0
           THEN Deliver(r, {"urls"}, GameData(req[r].game, <<>>)) /\ UNCHANGED acq
           ELSE /\ req' = [req EXCEPT ![r].pc = "scrape", ![r].work = @ \cup {"urls"}]
                /\ UNCHANGED <<games, today, dailyGameCache, marks, lastOk>>
                /\ Silent

\* lines 1102-1105 and 1130-1133: the review-url query failing
UrlsFail(r) ==
    /\ req[r].pc = "urls"
    /\ Deliver(r, {"urls", "urlsFailed"}, ReviewsFailedData(req[r].game))
    /\ UNCHANGED acq

\* lines 1119-1129: Promise.all over scrapeSteamReview, each url resolving to
\* a success or to a failure record
Scrape(r) ==
    /\ req[r].pc = "scrape"
    /\ LET urls == ReviewUrls(req[r].game)
       IN  \E ok \in [1..Len(urls) -> BOOLEAN] :
               Deliver(r, {"urls", "fetch"}, GameData(req[r].game,
                   [i \in 1..Len(urls) |->
                       IF ok[i] THEN ScrapeOk(urls[i]) ELSE ScrapeFail(urls[i])]))
    /\ UNCHANGED acq

\* midnight
Tick ==
    /\ today < LastDay
    /\ \A r \in Requests : InFlight(r) => req[r].todayStr = today
    /\ today' = today + 1
    /\ lastOk' = NoOk
    /\ UNCHANGED <<games, dailyGameCache, req, marks>>
    /\ Silent

\* the process dies and starts again: lines 991-994 run anew, requests in
\* flight are gone, the database file stays
Restart ==
    /\ dailyGameCache' = EmptySlot
    /\ req' = [r \in Requests |-> IdleReq]
    /\ lastOk' = NoOk
    /\ acq' = IdleAcq
    /\ Quietly
    /\ UNCHANGED <<games, today, marks>>

Next ==
    \/ \E r \in Requests : Start(r)
    \/ \E r \in Requests : QueryA(r)
    \/ \E r \in Requests : QueryB(r)
    \/ \E r \in Requests : QueryC(r)
    \/ \E r \in Requests : UpdateD(r)
    \/ \E r \in Requests : QueryFails(r)
    \/ \E r \in Requests : UpdateFails(r)
    \/ \E r \in Requests : QueryUrls(r)
    \/ \E r \in Requests : UrlsFail(r)
    \/ \E r \in Requests : Scrape(r)
    \/ Tick
    \/ Restart

Spec     == Init /\ [][Next]_vars
\* the same program, keeping the history lastOk
SpecOk   == InitOk /\ [][Next]_vars
\* the same program, keeping the history marks
SpecMark == InitMark /\ [][Next]_vars
\* the server, remembering in lastOk the last 500 response of the date
SpecErr  == InitErr /\ [][Next]_vars

\* ------------------------------------------------- sequential operation
\* A fresh rotation (no active entry played yet), one request at a time and
\* a database that answers every statement.
InitSeq ==
    /\ Catalog
    /\ \A g \in Active(games) : games[g].last_played_on = NULL
    /\ track = {"marks"}

StartAlone(r) == (\A o \in Requests : ~InFlight(o)) /\ Start(r)

NextSeq ==
    \/ \E r \in Requests : StartAlone(r)
    \/ \E r \in Requests : QueryA(r)
    \/ \E r \in Requests : QueryB(r)
    \/ \E r \in Requests : QueryC(r)
    \/ \E r \in Requests : UpdateD(r)
    \/ \E r \in Requests : QueryUrls(r)
    \/ \E r \in Requests : Scrape(r)
    \/ Tick
    \/ Restart

SpecSeq == InitSeq /\ [][NextSeq]_vars

\* ------------------------------------------- acquisition, fetch by fetch
\* One request at a time, with getAndScrapeReviewDataForGame followed
\* through its awaits: the review-url query (any number of rows up to
\* MaxRows), the fetches resolving one by one in any order, the join.
InitAcq == Catalog /\ track = {}

\* lines 1100-1119: the review-url query returns; with no url the call
\* returns at once, otherwise line 1119 calls scrapeSteamReview for every
\* url, each running up to its axios.get, before line 1120 awaits them
AcqUrlsN(r, n) ==
    /\ req[r].pc = "urls"
    /\   LET g    == req[r].game
             urls == Limit(ReviewRowsOf(g, n))
             call == [acq EXCEPT !.game = g, !.n = n, !.urls = urls,
                                 !.outOfOrder = FALSE]
         IN  IF Len(urls) = 0
             THEN /\ Deliver(r, {"urls"}, GameData(g, <<>>))
                  /\ acq' = [call EXCEPT !.pc = "returned", !.started = {},
                                         !.rec = <<>>]
             ELSE /\ req' = [req EXCEPT ![r].pc = "scrape",
                                        ![r].work = @ \cup {"urls"}]
                  /\ acq' = [call EXCEPT !.pc = "join",
                                 !.started = 1..Len(urls),
                                 !.rec = [i \in 1..Len(urls) |-> Pending]]
                  /\ UNCHANGED <<games, today, dailyGameCache, marks, lastOk>>
                  /\ Quietly

\* the table holding any number of rows for the entry
AcqUrls(r) == \E n \in 0..MaxRows : AcqUrlsN(r, n)

\* lines 1102-1109 and 1130-1133: the review-url query fails
AcqUrlsFail(r) ==
    /\ req[r].pc = "urls"
    /\ Deliver(r, {"urls", "urlsFailed"}, ReviewsFailedData(req[r].game))
    /\ acq' = [acq EXCEPT !.pc = "failed", !.game = req[r].game, !.n = 0,
                          !.urls = <<>>, !.started = {}, !.rec = <<>>,
                          !.outOfOrder = FALSE, !.failed = TRUE]

\* lines 1229-1292: one started scrapeSteamReview resolves, to its review
\* data or (any throw of axios.get or of the parsing) to the failure record
FetchDone(r) ==
    /\ req[r].pc = "scrape"
    /\ acq.pc = "join"
    /\ \E i \in acq.started, ok \in BOOLEAN :
         /\ acq.rec[i] = Pending
         /\ i # acq.dead
         /\ acq' = [acq EXCEPT
                !.rec = Resolve(acq.rec, i,
                           IF ok THEN ScrapeOk(acq.urls[i])
                                 ELSE ScrapeFail(acq.urls[i])),
                !.outOfOrder = @ \/ \E j \in 1..(i - 1) : acq.rec[j] = Pending]
    /\ UNCHANGED <<games, today, dailyGameCache, req, marks, lastOk>>
    /\ Quietly

\* lines 1120-1129 and 1205-1216: Promise.all resolves, the call returns and
\* the handler caches the payload and sends it
AcqJoin(r) ==
    /\ req[r].pc = "scrape"
    /\ acq.pc = "join"
    /\ AllResolved(acq.rec)
    /\ Deliver(r, {"urls", "fetch"}, GameData(acq.game, acq.rec))
    /\ acq' = [acq EXCEPT !.pc = "returned"]

NextAcq ==
    \/ \E r \in Requests : StartAlone(r)
    \/ \E r \in Requests : QueryA(r)
    \/ \E r \in Requests : QueryB(r)
    \/ \E r \in Requests : QueryC(r)
    \/ \E r \in Requests : UpdateD(r)
    \/ \E r \in Requests : AcqUrls(r)
    \/ \E r \in Requests : AcqUrlsFail(r)
    \/ \E r \in Requests : FetchDone(r)
    \/ \E r \in Requests : AcqJoin(r)
    \/ Restart

SpecAcq == InitAcq /\ [][NextAcq]_vars

\* -------------------------------------------------- an unresponsive source
\* lines 1230-1235: axios.get is called without a timeout option, so a
\* source that accepts the connection and never answers leaves its promise
\* pending for ever
FetchHangs(r) ==
    /\ req[r].pc = "scrape"
    /\ acq.pc = "join"
    /\ acq.dead = 0
    /\ \E i \in acq.started :
         /\ acq.rec[i] = Pending
         /\ acq' = [acq EXCEPT !.dead = i]
    /\ UNCHANGED <<games, today, dailyGameCache, req, marks, lastOk>>
    /\ Quietly

\* the steps the event loop and the database take whenever they can
Progress ==
    \E r \in Requests :
        \/ QueryA(r) \/ QueryB(r) \/ QueryC(r) \/ UpdateD(r)
        \/ AcqUrls(r) \/ FetchDone(r) \/ AcqJoin(r)

NextLive ==
    \/ \E r \in Requests : StartAlone(r)
    \/ \E r \in Requests : FetchHangs(r)
    \/ Progress

\* every responsive source answers and every database statement calls back
SpecLive == InitAcq /\ [][NextLive]_vars /\ WF_vars(Progress)

\* ------------------------------------------------------ startup seeding
\* database.js opens the database and calls seedInitialData without anyone
\* awaiting it, while the server starts listening on its own: requests are
\* handled between the statements of the seeding. The database holds the
\* games of the seed list from an earlier run, each with its SeedRows urls.
InitSeed == Catalog /\ track = {}

\* the first game of a set of games; the games of the seed list are those
\* that are not obsolete
Least(S) == CHOOSE g \in S : \A h \in S : g <= h

StartSeed == [seed EXCEPT !.pc = "delete", !.game = Least(Ids \ seed.obsolete),
                          !.rows = [g \in Ids |-> SeedRows]]

SeedStep(sd) ==
    /\ seed' = sd
    /\ out' = NoOut
    /\ UNCHANGED <<games, today, dailyGameCache, req, marks, lastOk, track,
                   acq, calc, page, apps>>

\* part_000 lines 612-615: checkAndSeedDatabase calls seedInitialData
SeedBegin ==
    /\ seed.pc = "idle"
    /\ SeedStep(StartSeed)

\* part_000 lines 1549-1555: DELETE FROM game_reviews WHERE game_id = ?
SeedDelete ==
    /\ seed.pc = "delete"
    /\ SeedStep([seed EXCEPT !.pc = "insert", !.rows[seed.game] = 0])

\* part_000 lines 1573-1595: one INSERT OR IGNORE INTO game_reviews, then
\* the next url, the next game of the list, or the end
SeedInsert ==
    /\ seed.pc = "insert"
    /\ LET k == seed.rows[seed.game] + 1
           sd == [seed EXCEPT !.rows[seed.game] = k]
           later == {h \in Ids \ seed.obsolete : h > seed.game}
       IN  SeedStep(IF k < SeedRows THEN sd
                    ELSE IF later # {}
                         THEN [sd EXCEPT !.pc = "delete",
                                         !.game = Least(later)]
                         ELSE IF seed.obsolete # {}
                         THEN [sd EXCEPT !.pc = "cleanup",
                                         !.game = Least(seed.obsolete)]
                         ELSE [sd EXCEPT !.pc = "done"])

\* the review-url query sees the rows that are in the table at that moment
SeedAcqUrls(r) ==
    /\ seed.pc # "idle"
    /\ AcqUrlsN(r, seed.rows[req[r].game])

NextSeed ==
    \/ SeedBegin
    \/ SeedDelete
    \/ SeedInsert
    \/ \E r \in Requests : StartAlone(r)
    \/ \E r \in Requests : QueryA(r)
    \/ \E r \in Requests : QueryB(r)
    \/ \E r \in Requests : QueryC(r)
    \/ \E r \in Requests : UpdateD(r)
    \/ \E r \in Requests : SeedAcqUrls(r)
    \/ \E r \in Requests : FetchDone(r)
    \/ \E r \in Requests : AcqJoin(r)

SpecSeed == InitSeed /\ [][NextSeed]_vars

\* The same seeding on a database that also holds games whose titles have
\* left the seed list. The schema declares ON DELETE CASCADE, and no
\* statement sets PRAGMA foreign_keys: whether SQLite enforces the clause is
\* the compile-time default of the build.
InitCleanup ==
    /\ games \in [Ids -> [is_active : BOOLEAN,
                          last_played_on : {NULL, Yesterday, FirstDay}]]
    /\ \A g, h \in Ids :
          (g # h /\ games[g].last_played_on # NULL) =>
              games[g].last_played_on # games[h].last_played_on
    /\ today = FirstDay
    /\ dailyGameCache = EmptySlot
    /\ req = [r \in Requests |-> IdleReq]
    /\ marks = [d \in Days |-> 0]
    /\ out = NoOut
    /\ lastOk = NoOk
    /\ acq = IdleAcq
    /\ calc = IdleCalc
    /\ page = IdlePage
    /\ apps = IdleApps
    /\ track = {}
    /\ \E o \in SUBSET Ids, fk \in BOOLEAN :
          /\ o # Ids
          /\ seed = [IdleSeed EXCEPT !.obsolete = o, !.foreignKeys = fk,
                                     !.rows = [g \in Ids |-> SeedRows]]

\* part_000 lines 1601-1622: DELETE FROM games WHERE id = ? for the next
\* game of the database that is not in the seed list
SeedCleanup ==
    /\ seed.pc = "cleanup"
    /\ LET g == seed.game
           sd == [seed EXCEPT !.deleted = @ \cup {g},
                              !.rows[g] = IF seed.foreignKeys THEN 0 ELSE @]
           later == {h \in seed.obsolete : h > g}
       IN  SeedStep(IF later # {}
                    THEN [sd EXCEPT !.game = Least(later)]
                    ELSE [sd EXCEPT !.pc = "done"])

NextCleanup == SeedBegin \/ SeedDelete \/ SeedInsert \/ SeedCleanup

SpecCleanup == InitCleanup /\ [][NextCleanup]_vars

\* ------------------------------------------------- an abandoned request
\* The caller closes the connection while the handler is at an await. The
\* handler registers no 'close' or 'aborted' listener and never looks at
\* the connection, so its position and locals stay as they are.
AfterAbandonCancelled(me) == IdleReq
AfterAbandon(me) == [me EXCEPT !.work = @ \cup {"abandoned"}]

Abandon(r) ==
    /\ InFlight(r)
    /\ "abandoned" \notin req[r].work
    /\ req' = [req EXCEPT ![r] = AfterAbandon(req[r])]
    /\ UNCHANGED <<games, today, dailyGameCache, marks, lastOk>>
    /\ Silent

NextAbandon ==
    \/ Next
    \/ \E r \in Requests : Abandon(r)

SpecAbandon == Init /\ [][NextAbandon]_vars

\* ------------------------------------------------------- review markup
\* Text is a sequence of tokens; each token stands for the characters it
\* spells, so that trim, split, match and includes act on it as on a string.
Texts ==
    UNION {[1..n -> {"(", ")", "/", " ", " on record", " at review time",
                     "hrs", "5"}] : n \in 0..MaxTokens}

PlaytimeDefault == <<"Playtime not shown">>

\* a token without its leading / trailing white space
NoLead(t) ==
    CASE t = " on record"      -> "on record"
      [] t = " at review time" -> "at review time"
      [] OTHER                 -> t
NoTrail(t) == IF t = "Posted: " THEN "Posted:" ELSE t

RECURSIVE TrimStart(_)
TrimStart(s) ==
    IF s = <<>> THEN s
    ELSE IF Head(s) \in {" ", "\n"} THEN TrimStart(Tail(s))
    ELSE <<NoLead(Head(s))>> \o Tail(s)

RECURSIVE TrimEnd(_)
TrimEnd(s) ==
    IF s = <<>> THEN s
    ELSE IF s[Len(s)] \in {" ", "\n"} THEN TrimEnd(SubSeq(s, 1, Len(s) - 1))
    ELSE SubSeq(s, 1, Len(s) - 1) \o <<NoTrail(s[Len(s)])>>

\* String.prototype.trim
Trim(s) == TrimEnd(TrimStart(s))

Includes(s, t) == \E i \in DOMAIN s : s[i] = t

\* index of the first t in s, Len(s) + 1 when there is none
IndexOf(s, t) ==
    IF Includes(s, t) THEN CHOOSE i \in DOMAIN s :
                               s[i] = t /\ \A k \in 1..(i - 1) : s[k] # t
    ELSE Len(s) + 1

\* s.split(t)[0]
SplitFirst(s, t) == SubSeq(s, 1, IndexOf(s, t) - 1)

\* s.split(t)[1], NoData for undefined
SplitSecond(s, t) ==
    IF ~Includes(s, t) THEN NoData
    ELSE LET rest == SubSeq(s, IndexOf(s, t) + 1, Len(s))
         IN  [value |-> SplitFirst(rest, t)]

\* /\(([^)]+) at review time\)/ matches s with the group s[i+1 .. j-1]
GroupAt(s, i, j) ==
    /\ i + 1 < j
    /\ j < Len(s)
    /\ s[i] = "("
    /\ s[j] = " at review time"
    /\ s[j + 1] = ")"
    /\ \A k \in (i + 1)..(j - 1) : s[k] # ")"

\* playTimeText.match(...): leftmost start, greedy group; NoData for null
Match(s) ==
    LET P == {p \in (DOMAIN s) \X (DOMAIN s) : GroupAt(s, p[1], p[2])}
    IN  IF P = {} THEN NoData
        ELSE LET q == CHOOSE p \in P :
                          \A o \in P : \/ p[1] < o[1]
                                       \/ p[1] = o[1] /\ p[2] >= o[2]
             IN  [group |-> SubSeq(s, q[1] + 1, q[2] - 1)]

\* if (!playtime.includes("hrs")) playtime += " hrs"
WithUnitsNever(v) == v
WithUnits(v) == IF Includes(v, "hrs") THEN v ELSE v \o <<" ", "hrs">>

\* playTimeText.split('/')[1]?.trim().split(' on record')[0]?.trim()
Fallback(s) ==
    LET part == SplitSecond(s, "/")
    IN  IF part = NoData THEN NoData
        ELSE [value |-> Trim(SplitFirst(Trim(part.value), " on record"))]

\* the playtime field for the raw text of the .playTime element
Playtime(raw) ==
    LET s == Trim(raw)
        m == Match(s)
    IN  IF m # NoData THEN m.group
        ELSE IF s = <<>> THEN PlaytimeDefault
        ELSE LET f == Fallback(s)
             IN  IF f = NoData THEN PlaytimeDefault
                 ELSE IF f.value = <<>> THEN PlaytimeDefault
                 ELSE IF WithUnits(f.value) = <<"hrs">> THEN PlaytimeDefault
                 ELSE WithUnits(f.value)

\* the scraper applied to one playtime text
InitPlaytime ==
    /\ games = [g \in Ids |-> [is_active |-> TRUE, last_played_on |-> NULL]]
    /\ today = FirstDay
    /\ dailyGameCache = EmptySlot
    /\ req = [r \in Requests |-> IdleReq]
    /\ marks = [d \in Days |-> 0]
    /\ out = NoOut
    /\ lastOk = NoOk
    /\ acq = IdleAcq
    /\ seed = IdleSeed
    /\ page = IdlePage
    /\ apps = IdleApps
    /\ track = {}
    /\ \E a \in Texts : calc = [fn |-> "none", arg |-> a, result |-> <<>>]

Apply(fn, result) ==
    /\ calc.fn = "none"
    /\ calc' = [calc EXCEPT !.fn = fn, !.result = result]
    /\ UNCHANGED <<games, today, dailyGameCache, req, marks, out, lastOk,
                   track, acq, seed, page, apps>>

ScrapePlaytime == Apply("playtime", Playtime(calc.arg))

SpecPlaytime == InitPlaytime /\ [][ScrapePlaytime]_vars

\* the elements of a fetched review page that scrapeSteamReview selects:
\* texts as token sequences, attributes as strings, the body as its html
Markup ==
    [name1    : {<<>>, <<" ">>, <<" ", "Al", " ">>},
     name2    : {<<>>, <<" ">>, <<"Bo", " ">>},
     avatar1  : {"undefined", "", "a.jpg"},
     avatar2  : {"undefined", "", "b.jpg"},
     rec      : {<<>>, <<" ">>, <<" ", "Recommended">>},
     playTime : {<<>>, <<"5", " ", "/", "5">>,
                 <<"(", "5", " at review time", ")">>},
     date     : {<<>>, <<"Posted: ">>, <<"Posted: ", "May 5">>, <<"May 5">>},
     body     : {NoData, [html |-> <<>>], [html |-> <<" ">>],
                 [html |-> <<"a", "<br>", "b", "<br>">>]}]

\* s.replace(t, ''): the first t removed
Remove(s, t) ==
    SubSeq(s, 1, IndexOf(s, t) - 1) \o SubSeq(s, IndexOf(s, t) + 1, Len(s))

\* reviewContentHTML.replace(/<br\s*\/?>/gi, '\n')
BrToNewline(s) == [i \in DOMAIN s |-> IF s[i] = "<br>" THEN "\n" ELSE s[i]]

\* if (value) reviewData.field = value, for texts
ExtractedNever(v, dflt) == dflt
Extracted(v, dflt) == IF v # <<>> THEN v ELSE dflt

\* the avatar locator: img:last-child, else the second img, else null
Avatar(m) ==
    LET src == IF m.avatar1 \in {"undefined", ""} THEN m.avatar2
               ELSE m.avatar1
    IN  IF src \in {"undefined", ""} THEN "null" ELSE src

\* the body text
ReviewText(m) ==
    IF m.body = NoData \/ m.body = [html |-> <<>>]
    THEN <<"Could not load review text.">>
    ELSE Trim(BrToNewline(m.body.html))

\* scrapeSteamReview after a successful fetch
Parse(m) ==
    [reviewerName      |-> Extracted(Trim(m.name1),
                               Extracted(Trim(m.name2), <<"A Steam User">>)),
     reviewerAvatarUrl |-> Avatar(m),
     recommendation    |-> Extracted(Trim(m.rec), <<"Not specified">>),
     playtime          |-> Playtime(m.playTime),
     datePosted        |-> Extracted(Remove(Trim(m.date), "Posted: "),
                                     <<"Date not found">>),
     reviewText        |-> ReviewText(m)]

InitParse ==
    /\ games = [g \in Ids |-> [is_active |-> TRUE, last_played_on |-> NULL]]
    /\ today = FirstDay
    /\ dailyGameCache = EmptySlot
    /\ req = [r \in Requests |-> IdleReq]
    /\ marks = [d \in Days |-> 0]
    /\ out = NoOut
    /\ lastOk = NoOk
    /\ acq = IdleAcq
    /\ seed = IdleSeed
    /\ page = IdlePage
    /\ apps = IdleApps
    /\ track = {}
    /\ \E m \in Markup : calc = [fn |-> "none", arg |-> m, result |-> <<>>]

ScrapeParse == Apply("parse", Parse(calc.arg))

SpecParse == InitParse /\ [][ScrapeParse]_vars

\* ------------------------------------------------------- title search
\* Names and terms are sequences of characters: a lower-case letter, a
\* letter in both cases, a punctuation mark and, in terms, a blank.
NameChars == {"a", "b", "B", "-"}
Names == UNION {[1..n -> NameChars] : n \in 1..MaxChars}
Terms == UNION {[1..n -> NameChars \cup {" "}] : n \in 0..MaxChars}

\* str.toLowerCase()
ToLowerCase(str) == [i \in DOMAIN str |-> IF str[i] = "B" THEN "b" ELSE str[i]]

IsAlnum(c) == c \in {"a", "b", "B"}

\* str.toLowerCase().replace(/[^a-z0-9]/gi, '')
normalizeStringServer(str) == SelectSeq(ToLowerCase(str), IsAlnum)

\* s.startsWith(t), s.includes(t)
StartsWith(s, t) == Len(t) <= Len(s) /\ SubSeq(s, 1, Len(t)) = t
Contains(s, t) ==
    \E i \in 0..(Len(s) - Len(t)) : SubSeq(s, i + 1, i + Len(t)) = t

\* a.localeCompare(b) < 0: letters in alphabetical order after punctuation,
\* the case deciding between names that differ in nothing else

RECURSIVE LexLess(_, _)
LexLess(x, y) ==
    IF y = <<>> THEN FALSE
    ELSE IF x = <<>> THEN TRUE
    ELSE IF Head(x) # Head(y) THEN Head(x) < Head(y)
    ELSE LexLess(Tail(x), Tail(y))

LocaleBefore(a, b) ==
    LET Primary(c)  == CASE c = "-" -> 0 [] c = "a" -> 1 [] OTHER -> 2
        Tertiary(c) == IF c = "B" THEN 1 ELSE 0
        pa == [i \in DOMAIN a |-> Primary(a[i])]
        pb == [i \in DOMAIN b |-> Primary(b[i])]
        ta == [i \in DOMAIN a |-> Tertiary(a[i])]
        tb == [i \in DOMAIN b |-> Tertiary(b[i])]
    IN  LexLess(pa, pb) \/ (pa = pb /\ LexLess(ta, tb))

\* steamAppsCache: names unique, sorted by localeCompare
Caches ==
    {c \in UNION {[1..n -> Names] : n \in 0..MaxApps} :
        \A i, j \in DOMAIN c : i < j => LocaleBefore(c[i], c[j])}

\* the comparator of the suggestions is negative for (a, b)
PrecedesByNameOnly(a, b, term) ==
    LocaleBefore(normalizeStringServer(a), normalizeStringServer(b))
Precedes(a, b, term) ==
    LET na == normalizeStringServer(a)
        nb == normalizeStringServer(b)
    IN  IF StartsWith(na, term) /\ ~StartsWith(nb, term) THEN TRUE
        ELSE IF ~StartsWith(na, term) /\ StartsWith(nb, term) THEN FALSE
        ELSE LocaleBefore(na, nb)

\* Array.prototype.sort, stable: x goes before the first element it precedes
RECURSIVE Insert(_, _, _)
Insert(x, sorted, term) ==
    IF sorted = <<>> THEN <<x>>
    ELSE IF Precedes(x, Head(sorted), term) THEN <<x>> \o sorted
    ELSE <<Head(sorted)>> \o Insert(x, Tail(sorted), term)

RECURSIVE Sort(_, _)
Sort(list, term) ==
    IF list = <<>> THEN <<>>
    ELSE Insert(list[Len(list)], Sort(SubSeq(list, 1, Len(list) - 1), term),
                term)

\* parseInt(req.query.limit, 10) || 15, the query value 0 also standing for
\* a missing or non-numeric one
Limited(q) == IF q = 0 THEN DefaultLimit ELSE q

\* list.slice(0, n)
Slice(list, n) ==
    IF n >= 0 THEN SubSeq(list, 1, IF n < Len(list) THEN n ELSE Len(list))
    ELSE SubSeq(list, 1, Len(list) + n)

\* app.get('/api/search-steam-games'): the body of its response
Search(cache, termRaw, q) ==
    LET searchTermRaw == Trim(termRaw)
        normalizedSearchTerm == normalizeStringServer(searchTermRaw)
        Hit(name) == Contains(normalizeStringServer(name),
                              normalizedSearchTerm)
    IN  IF Len(searchTermRaw) < 2 THEN <<>>
        ELSE Slice(Sort(SelectSeq(cache, Hit), normalizedSearchTerm),
                   Limited(q))

InitSearch ==
    /\ games = [g \in Ids |-> [is_active |-> TRUE, last_played_on |-> NULL]]
    /\ today = FirstDay
    /\ dailyGameCache = EmptySlot
    /\ req = [r \in Requests |-> IdleReq]
    /\ marks = [d \in Days |-> 0]
    /\ out = NoOut
    /\ lastOk = NoOk
    /\ acq = IdleAcq
    /\ seed = IdleSeed
    /\ page = IdlePage
    /\ apps = IdleApps
    /\ track = {}
    /\ \E c \in Caches, t \in Terms, q \in -1..MaxApps :
           calc = [fn |-> "none",
                   arg |-> [cache |-> c, term |-> t, limit |-> q],
                   result |-> <<>>]

SearchGames ==
    Apply("search", Search(calc.arg.cache, calc.arg.term, calc.arg.limit))

SpecSearch == InitSearch /\ [][SearchGames]_vars

\* ------------------------------------------------------- the front-end
\* the title column of game id as text: id letters 'a' and a capital 'B'
TitleText(id) == [k \in 1..(id + 1) |-> IF k <= id THEN "a" ELSE "B"]

\* what the page can receive from GET /api/daily-game: a payload of any
\* game with the clue records of its first ClueLimit urls, or an error
DailyResponses ==
    {[status |-> 200,
      body |-> GameData(id, [k \in DOMAIN Limit(ReviewRowsOf(id, n)) |->
                                 ScrapeOk(Limit(ReviewRowsOf(id, n))[k])])] :
        id \in Ids, n \in 0..MaxRows}
    \cup {[status |-> 500, body |-> [error |-> MsgCached]]}

\* normalizeString of the front-end
normalizeString(str) == SelectSeq(ToLowerCase(str), IsAlnum)

\* fetchDailyGame: the payload is accepted
LoadableAlways(body) == TRUE
Loadable(body) == body.reviews # <<>>

\* displayNextReview
DisplayNothing(p) == p
DisplayNextReview(p) ==
    IF p.isGameOver \/ p.currentReviewIndex >= Len(p.currentGame.reviews)
    THEN p
    ELSE [p EXCEPT !.shown = @ \cup {p.currentReviewIndex + 1}]

\* endGame
EndGameStillOpen(p, didWin) ==
    [p EXCEPT !.shown = 1..Len(p.currentGame.reviews),
              !.outcome = IF didWin THEN "win" ELSE "lose"]
EndGame(p, didWin) ==
    [p EXCEPT !.isGameOver = TRUE,
              !.disabled = TRUE,
              !.shown = 1..Len(p.currentGame.reviews),
              !.outcome = IF didWin THEN "win" ELSE "lose"]

\* handleGuess: the guess it reads, the end of a wrong guess
GuessedTitleRaw(p) == p.input
GuessedTitle(p) == Trim(p.input)

AfterWrongWhileGuessesLeft(p) ==
    IF p.guessesLeft <= 0 THEN EndGame(p, FALSE) ELSE DisplayNextReview(p)
AfterWrong(p) ==
    IF p.guessesLeft <= 0 THEN EndGame(p, FALSE)
    ELSE IF p.currentReviewIndex < Len(p.currentGame.reviews)
    THEN DisplayNextReview(p)
    ELSE EndGame(p, FALSE)

InitPage ==
    /\ games = [g \in Ids |-> [is_active |-> TRUE, last_played_on |-> NULL]]
    /\ today = FirstDay
    /\ dailyGameCache = EmptySlot
    /\ req = [r \in Requests |-> IdleReq]
    /\ marks = [d \in Days |-> 0]
    /\ out = NoOut
    /\ lastOk = NoOk
    /\ acq = IdleAcq
    /\ seed = IdleSeed
    /\ calc = IdleCalc
    /\ apps = IdleApps
    /\ track = {}
    /\ \E d \in BOOLEAN : page = [IdlePage EXCEPT !.disabled = d]

PageStep(p) ==
    /\ page' = p
    /\ UNCHANGED <<games, today, dailyGameCache, req, marks, out, lastOk,
                   track, acq, seed, calc, apps>>

\* initGame with fetchDailyGame, called once when the document has loaded
InitGame ==
    /\ page.event = "none"
    /\ \E resp \in DailyResponses :
          IF resp.status # 200
          THEN PageStep([page EXCEPT !.event = "loadFailed",
                                     !.status = resp.status,
                                     !.disabled = TRUE])
          ELSE IF ~Loadable(resp.body)
          THEN PageStep([page EXCEPT !.event = "loadFailed",
                                     !.status = resp.status,
                                     !.currentGame = resp.body,
                                     !.disabled = TRUE])
          ELSE PageStep(DisplayNextReview(
                   [page EXCEPT !.event = "loaded",
                                !.status = resp.status,
                                !.currentGame = resp.body,
                                !.currentReviewIndex = 0,
                                !.guessesLeft = MaxGuesses,
                                !.isGameOver = FALSE,
                                !.shareGrid = <<>>,
                                !.previousGuesses = <<>>,
                                !.shown = {},
                                !.input = <<>>,
                                !.disabled = FALSE,
                                !.outcome = "none"]))

\* the player types into the guess input
TypeGuess ==
    /\ ~page.disabled
    /\ \E text \in {<<>>, <<" ">>, <<" ", "a", "-", "b", " ">>,
                     <<"a", "a", "B">>, <<"b">>} :
          PageStep([page EXCEPT !.event = "input", !.input = text])

\* handleGuess, on a click of the button or on Enter in the input
HandleGuess ==
    LET guessedTitle == GuessedTitle(page)
    IN  IF page.isGameOver \/ page.disabled
        THEN PageStep([page EXCEPT !.event = "ignored"])
        ELSE IF guessedTitle = <<>>
        THEN PageStep([page EXCEPT !.event = "empty"])
        ELSE IF page.currentGame = NoData
        THEN PageStep([page EXCEPT !.event = "critical"])
        ELSE IF normalizeString(guessedTitle)
                  = normalizeString(TitleText(page.currentGame.title))
        THEN PageStep([EndGame([page EXCEPT !.shareGrid = Append(@, "G")],
                               TRUE)
                          EXCEPT !.event = "correct", !.input = <<>>])
        ELSE PageStep([AfterWrong(
                          [page EXCEPT
                              !.shareGrid = Append(@, "R"),
                              !.guessesLeft = @ - 1,
                              !.previousGuesses = Append(@, guessedTitle),
                              !.currentReviewIndex = @ + 1])
                          EXCEPT !.event = "incorrect", !.input = <<>>])

NextPage == InitGame \/ TypeGuess \/ HandleGuess

SpecPage == InitPage /\ [][NextPage]_vars

\* ------------------------------------------------- the app-list cache
\* how a fetch of the app list can end: with a list, filtered and sorted,
\* or with a network error, a status that is not ok or a body of an
\* unexpected shape
FetchResults ==
    {[ok |-> TRUE, names |-> l] :
        l \in {<<>>, << <<"a", "B">> >>, << <<"a", "B">>, <<"b">> >>}}
    \cup {[ok |-> FALSE]}

\* fetchAndCacheSteamApps when the fetch has ended
AfterFailedFetchStamped(a) ==
    [a EXCEPT !.lastSteamAppsFetchTime = a.now, !.outcome = "failed"]
AfterFailedFetch(a) == [a EXCEPT !.outcome = "failed"]

AfterFetch(a, result) ==
    IF result.ok
    THEN [a EXCEPT !.steamAppsCache = result.names,
                   !.lastSteamAppsFetchTime = a.now,
                   !.outcome = "ok"]
    ELSE AfterFailedFetch(a)

InitApps ==
    /\ games = [g \in Ids |-> [is_active |-> TRUE, last_played_on |-> NULL]]
    /\ today = FirstDay
    /\ dailyGameCache = EmptySlot
    /\ req = [r \in Requests |-> IdleReq]
    /\ marks = [d \in Days |-> 0]
    /\ out = NoOut
    /\ lastOk = NoOk
    /\ acq = IdleAcq
    /\ seed = IdleSeed
    /\ calc = IdleCalc
    /\ page = IdlePage
    /\ track = {}
    /\ apps = IdleApps

AppsStep(a) ==
    /\ apps' = a
    /\ UNCHANGED <<games, today, dailyGameCache, req, marks, out, lastOk,
                   track, acq, seed, calc, page>>

\* script.js lines 1297-1307: the fetch at start, then app.listen either way
StartupFetch ==
    /\ apps.pc = "starting"
    /\ \E result \in FetchResults :
          AppsStep([AfterFetch(apps, result) EXCEPT !.pc = "listening"])

\* time passes
ClockTick ==
    /\ apps.now < StartClock + MaxTicks
    /\ AppsStep([apps EXCEPT !.now = @ + 1, !.outcome = "none",
                             !.served = NoData])

\* a search request arrives: it awaits a refresh when the cache is stale
\* and is answered from the cache at once when it is not
SearchArrives(r) ==
    /\ apps.pc = "listening"
    /\ apps.search[r] = "idle"
    /\ IF \/ Len(apps.steamAppsCache) = 0
          \/ apps.now - apps.lastSteamAppsFetchTime > CacheDuration
       THEN AppsStep([apps EXCEPT !.search[r] = "fetching",
                                  !.outcome = "none", !.served = NoData])
       ELSE AppsStep([apps EXCEPT !.outcome = "none",
                                  !.served = [names |-> apps.steamAppsCache]])

\* the refresh a request awaits ends, and the request is answered
RefreshEnds(r) ==
    /\ apps.search[r] = "fetching"
    /\ \E result \in FetchResults :
          LET a == AfterFetch(apps, result)
          IN  AppsStep([a EXCEPT !.search[r] = "idle",
                                 !.served = [names |-> a.steamAppsCache]])

NextApps ==
    \/ StartupFetch
    \/ ClockTick
    \/ \E r \in Requests : SearchArrives(r)
    \/ \E r \in Requests : RefreshEnds(r)

SpecApps == InitApps /\ [][NextApps]_vars

\* ================================================================ claims
\* the statement at pc of request r ran and called back without an error
Returned(r, pc) == req[r].pc = pc /\ req'[r].pc \notin {pc, "idle"}

\* a response has just been sent
Sent == out.status # 0

C2_OneMarkPerDay == \A d \in Days : marks[d] <= 1

\* ---------------------------------------------------------------- C3
\* C3: when query A runs while an active entry has last_played_on equal to
\* the request's today, the build takes such an entry, goes on to the
\* reviews without the UPDATE, and no step of that request changes table
\* games; the entry it answers with is that entry.
C3_Step ==
    /\ \A r \in Requests :
          (/\ Returned(r, "A")
           /\ \E g \in Ids : games[g].is_active
                              /\ games[g].last_played_on = req[r].todayStr)
          => /\ req'[r].via = "A"
             /\ req'[r].pc = "urls"
             /\ games[req'[r].game].is_active
             /\ games[req'[r].game].last_played_on = req[r].todayStr
    /\ \A r \in Requests :
          (req[r].via = "A" /\ req'[r] # req[r]) => games' = games
    /\ \A r \in Requests :
          req'[r].via = "A" => /\ req'[r].pickedLpo = req'[r].todayStr
                               /\ "update" \notin req'[r].work
    /\ (out'.status = 200 /\ out'.via = "A") =>
          /\ out'.pickedLpo = out'.todayStr
          /\ "update" \notin out'.work
          /\ out'.body.title = GameTitle(out'.game)

C3_Idempotent == [][C3_Step]_vars

C3_Witness ==
    /\ out.status = 200 /\ out.via = "A"
    /\ out.pickedLpo = out.todayStr
    /\ games[out.game].last_played_on = out.todayStr
    /\ "update" \notin out.work /\ "query" \in out.work
    /\ out.body.title = GameTitle(out.game)

\* ---------------------------------------------------------------- C4
\* C4: from a rotation in which no active entry has been played, with one
\* request at a time and no storage failure, as long as every date since
\* the first has had a selection and no more dates have begun than there
\* are active entries, each of those dates was written exactly once and is
\* the last-selected date of exactly one active entry: N dates select each
\* of the N active entries exactly once.
C4_Fairness ==
    LET n == Cardinality(Active(games))
    IN  today <= FirstDay + n - 1 =>
          \A d \in FirstDay..today :
             (\A e \in FirstDay..d : marks[e] >= 1) =>
                \A e \in FirstDay..d :
                   /\ marks[e] = 1
                   /\ Cardinality({g \in Active(games) :
                                      games[g].last_played_on = e}) = 1

C4_Witness ==
    /\ Active(games) = Ids
    /\ today = FirstDay + NumGames - 1
    /\ \A e \in FirstDay..today : marks[e] = 1
    /\ \A g \in Ids : games[g].last_played_on \in FirstDay..today
    /\ out.status = 200 /\ out.todayStr = today

\* ---------------------------------------------------------------- C5
\* C5: when query B runs while some active entry has a null last-selected
\* date, the build selects an active entry whose date is null; an entry
\* selected by B always had a null date when it was selected.
C5_Step ==
    /\ \A r \in Requests :
          (/\ Returned(r, "B")
           /\ \E g \in Ids : games[g].is_active /\ games[g].last_played_on = NULL)
          => /\ req'[r].via = "B"
             /\ games[req'[r].game].is_active
             /\ games[req'[r].game].last_played_on = NULL
    /\ \A r \in Requests : req'[r].via = "B" => req'[r].pickedLpo = NULL
    /\ (out'.status # 0 /\ out'.via = "B") => out'.pickedLpo = NULL

C5_UnplayedFirst == [][C5_Step]_vars

C5_Witness ==
    /\ out.status = 200 /\ out.via = "B" /\ out.pickedLpo = NULL
    /\ \E h \in Ids : /\ h # out.game
                       /\ games[h].is_active
                       /\ games[h].last_played_on # NULL
                       /\ games[h].last_played_on < out.todayStr

\* ---------------------------------------------------------------- C6
\* C6: when query C runs while every active entry has a non-null
\* last-selected date and none equals the request's today, the entry
\* selected is active and no active entry has an older date; the UPDATE that
\* follows sets that entry's date to the request's today.
C6_Step ==
    /\ \A r \in Requests :
          (/\ Returned(r, "C")
           /\ \A g \in Ids : games[g].is_active =>
                  /\ games[g].last_played_on # NULL
                  /\ games[g].last_played_on # req[r].todayStr)
          => /\ req'[r].via = "C"
             /\ games[req'[r].game].is_active
             /\ \A h \in Ids : games[h].is_active =>
                    games[req'[r].game].last_played_on <= games[h].last_played_on
    /\ \A r \in Requests :
          (Returned(r, "D") /\ req[r].via = "C") =>
             games'[req[r].game].last_played_on = req[r].todayStr

C6_Oldest == [][C6_Step]_vars

C6_Witness ==
    /\ out.status = 200 /\ out.via = "C"
    /\ out.pickedLpo # NULL /\ out.pickedLpo < out.todayStr
    /\ games[out.game].last_played_on = out.todayStr
    /\ \E h \in Ids : /\ h # out.game
                       /\ games[h].is_active
                       /\ games[h].last_played_on > out.pickedLpo
                       /\ games[h].last_played_on < out.todayStr

\* ---------------------------------------------------------------- C7
\* C7: no request ever holds an inactive entry as its game, no response and
\* no cache slot carries the title of an inactive entry, and no step
\* changes the row of an inactive entry.
ActiveTitles == {GameTitle(g) : g \in Active(games)}

C7_State ==
    /\ \A r \in Requests : req[r].game # 0 => games[req[r].game].is_active
    /\ out.game # 0 => games[out.game].is_active
    /\ "title" \in DOMAIN out.body => out.body.title \in ActiveTitles
    /\ "title" \in DOMAIN dailyGameCache.gameData =>
           dailyGameCache.gameData.title \in ActiveTitles

C7_Step ==
    /\ C7_State'
    /\ \A g \in Ids : ~games[g].is_active => games'[g] = games[g]

C7_InactiveNeverSelected == [][C7_Step]_vars

C7_Witness ==
    /\ out.status = 200 /\ out.via = "C"
    /\ \E g \in Ids : ~games[g].is_active /\ games[g].last_played_on = NULL

\* ---------------------------------------------------------------- C8
\* C8: a request whose entry was chosen by query B or C has run the UPDATE,
\* and the UPDATE has set that entry's date to the request's today, before
\* its review query starts and before its response is sent.
C8_State ==
    /\ \A r \in Requests :
          (req[r].via \in {"B", "C"} /\ req[r].pc \in {"urls", "scrape"})
          => "update" \in req[r].work
    /\ (Sent /\ out.via \in {"B", "C"} /\ "title" \in DOMAIN out.body)
          => "update" \in out.work

C8_Step ==
    /\ C8_State'
    /\ \A r \in Requests :
          Returned(r, "D") =>
             /\ req'[r].pc = "urls"
             /\ games'[req[r].game].last_played_on = req[r].todayStr

C8_PersistFirst == [][C8_Step]_vars

C8_Witness ==
    /\ out.status = 200 /\ out.via \in {"B", "C"}
    /\ "update" \in out.work /\ "fetch" \in out.work
    /\ games[out.game].last_played_on = out.todayStr

\* ---------------------------------------------------------------- C9
\* C9: a request whose UPDATE of the selected entry failed is still answered
\* 200 with that entry's payload.
C9_DegradedMode ==
    (Sent /\ "updateFailed" \in out.work) =>
        /\ out.status = 200
        /\ "title" \in DOMAIN out.body
        /\ out.body.title = GameTitle(out.game)

\* --------------------------------------------------------------- C10
\* C10: while no entry is active, a request that misses the cache is
\* answered 500 with an error body that has no title and no reviews, it
\* selects nothing and runs no UPDATE, and no step changes table games.
C10_State ==
    (Sent /\ out.work # {} /\ Active(games) = {}) =>
        /\ out.status = 500
        /\ "error" \in DOMAIN out.body
        /\ "title" \notin DOMAIN out.body
        /\ "reviews" \notin DOMAIN out.body
        /\ out.game = 0
        /\ "update" \notin out.work

C10_Step ==
    /\ C10_State'
    /\ Active(games) = {} => games' = games

C10_NoEntries == [][C10_Step]_vars

C10_Witness ==
    /\ Active(games) = {}
    /\ out.status = 500 /\ out.work = {"query"}
    /\ out.body = [error |-> TRUE, message |-> MsgNoGames]
    /\ dailyGameCache.date = out.todayStr

ErrorMessages == {MsgNoGames, MsgInternal, MsgReviews, MsgReviewsDefault, MsgCached}

C12_ErrorShape ==
    out.status = 500 =>
        /\ DOMAIN out.body = {"error"}
        /\ out.body.error \in ErrorMessages

\* --------------------------------------------------------------- C13
\* C13: a response served from the cache slot is served by a request whose
\* today equals the slot's date-key; a request starting while the slot has
\* another date-key sends nothing from it and runs the selection; a build
\* that ends leaves a slot keyed by its own today.
C13_Step ==
    /\ (out'.status # 0 /\ out'.work = {}) =>
          /\ dailyGameCache.date = out'.todayStr
          /\ out'.todayStr = today
          /\ IsError(dailyGameCache.gameData) \/ out'.body = dailyGameCache.gameData
    /\ \A r \in Requests :
          (req[r].pc = "idle" /\ req'[r] # req[r] /\ dailyGameCache.date # today)
          => /\ req'[r].pc = "A"
             /\ req'[r].todayStr = today
             /\ out'.status = 0
    /\ \A r \in Requests :
          (InFlight(r) /\ req'[r].pc = "idle" /\ out'.status # 0)
          => /\ dailyGameCache'.date = req[r].todayStr
             /\ IsData(dailyGameCache'.gameData)
             /\ out'.work # {}

C13_DateKey == [][C13_Step]_vars

C13_Witness ==
    /\ dailyGameCache.date # NULL /\ dailyGameCache.date < today
    /\ IsData(dailyGameCache.gameData) /\ ~IsError(dailyGameCache.gameData)
    /\ \E r \in Requests : req[r].todayStr = today /\ req[r].pc = "scrape"

\* --------------------------------------------------------------- C14
\* C14: the cache slot is always either the empty slot or a date-key with a
\* full payload (title, appId, reviews) or an error marker with a message;
\* every write of the slot is made by one request, keyed by that request's
\* today and holding the data of that request's entry.
FullPayload(d) == DOMAIN d = {"title", "appId", "reviews"}
ErrorMarker(d) ==
    IsError(d) /\ "message" \in DOMAIN d /\ d.message \in ErrorMessages

C14_State ==
    \/ dailyGameCache = EmptySlot
    \/ /\ dailyGameCache.date \in Days
       /\ IsData(dailyGameCache.gameData)
       /\ FullPayload(dailyGameCache.gameData) \/ ErrorMarker(dailyGameCache.gameData)

C14_Step ==
    /\ C14_State'
    /\ dailyGameCache' # dailyGameCache =>
          \/ dailyGameCache' = EmptySlot
          \/ \E r \in Requests :
                /\ InFlight(r) /\ req'[r].pc = "idle"
                /\ dailyGameCache'.date = req[r].todayStr
                /\ "title" \in DOMAIN dailyGameCache'.gameData =>
                       dailyGameCache'.gameData.title = GameTitle(req[r].game)

C14_WholeSlot == [][C14_Step]_vars

C14_Witness ==
    /\ dailyGameCache.date = today
    /\ ErrorMarker(dailyGameCache.gameData)
    /\ \E r \in Requests : req[r].pc = "scrape"

\* --------------------------------------------------------------- C15
\* C15: for an entry with n review rows, n at most 6, the acquisition
\* returns exactly n records and record i is the result (review data or
\* failure record) of resolving row i, in whatever order the fetches
\* completed.
C15_SameOrder ==
    (Sent /\ "urls" \in out.work /\ acq.pc = "returned" /\ acq.n <= ClueLimit) =>
        /\ out.status = 200
        /\ Len(out.body.reviews) = acq.n
        /\ \A i \in 1..acq.n :
              LET u == ReviewRowsOf(acq.game, acq.n)[i]
              IN  \/ out.body.reviews[i] = ScrapeOk(u)
                  \/ out.body.reviews[i] = ScrapeFail(u)

C15_Witness ==
    /\ out.status = 200 /\ "fetch" \in out.work
    /\ acq.pc = "returned" /\ acq.n = ClueLimit /\ acq.outOfOrder
    /\ Len(out.body.reviews) = ClueLimit
    /\ ~IsError(out.body.reviews[1])
    /\ IsError(out.body.reviews[ClueLimit])

\* --------------------------------------------------------------- C16
\* C16: a fetch that resolves changes only its own record; a failed fetch
\* leaves a record with error true, a message and originalUrl equal to its
\* own url, and in the payload every other record is the review data or
\* the failure record of its own url.
C16_Step ==
    /\ (acq.pc = "join" /\ acq'.pc = "join" /\ acq'.rec # acq.rec) =>
          \E i \in DOMAIN acq.rec :
             /\ acq.rec[i] = Pending
             /\ \/ acq'.rec[i] = ScrapeOk(acq.urls[i])
                \/ /\ IsError(acq'.rec[i])
                   /\ acq'.rec[i].message = MsgScrape
                   /\ acq'.rec[i].originalUrl = acq.urls[i]
             /\ \A j \in DOMAIN acq.rec \ {i} : acq'.rec[j] = acq.rec[j]
    /\ (out'.status # 0 /\ "fetch" \in out'.work) =>
          \A i \in DOMAIN out'.body.reviews :
             LET v == out'.body.reviews[i]
             IN  IF IsError(v)
                 THEN /\ "message" \in DOMAIN v
                      /\ v.originalUrl = acq.urls[i]
                 ELSE v = ScrapeOk(acq.urls[i])

C16_FailureRecord == [][C16_Step]_vars

C16_Witness ==
    /\ out.status = 200 /\ "fetch" \in out.work
    /\ Len(out.body.reviews) >= 3
    /\ ~IsError(out.body.reviews[1])
    /\ IsError(out.body.reviews[2])
    /\ out.body.reviews[2].originalUrl = acq.urls[2]
    /\ ~IsError(out.body.reviews[3])

\* --------------------------------------------------------------- C17
\* C17: while the handler waits at the join every fetch of the entry has
\* been started, whichever of them have resolved; a payload with fetched
\* reviews is cached and sent only from a state in which every fetch has
\* resolved, and no cache slot and no response holds an unresolved record.
Unresolved(d) ==
    /\ "reviews" \in DOMAIN d
    /\ \E i \in DOMAIN d.reviews : d.reviews[i] = Pending

C17_Step ==
    /\ acq'.pc = "join" =>
          /\ acq'.started = DOMAIN acq'.urls
          /\ DOMAIN acq'.rec = DOMAIN acq'.urls
    /\ (out'.status # 0 /\ "fetch" \in out'.work) =>
          /\ acq.pc = "join"
          /\ \A i \in DOMAIN acq.urls : acq.rec[i] # Pending
          /\ out'.body.reviews = acq.rec
          /\ dailyGameCache'.gameData = out'.body
    /\ ~Unresolved(out'.body)
    /\ ~Unresolved(dailyGameCache'.gameData)

C17_FanOutFanIn == [][C17_Step]_vars

C17_Witness ==
    /\ out.status = 200 /\ "fetch" \in out.work
    /\ acq.pc = "returned" /\ acq.outOfOrder
    /\ Len(out.body.reviews) = ClueLimit
    /\ dailyGameCache.gameData = out.body

\* --------------------------------------------------------------- C18
\* C18: a request that selected an entry and read its review urls is
\* answered 200 with a full payload, and that payload, not an error marker,
\* is cached, whatever records the fetches resolved to.
C18_PerClueFailures ==
    (Sent /\ "urls" \in out.work /\ "urlsFailed" \notin out.work) =>
        /\ out.status = 200
        /\ FullPayload(out.body)
        /\ dailyGameCache = [date |-> out.todayStr, gameData |-> out.body]
        /\ ~IsError(dailyGameCache.gameData)

C18_Witness ==
    /\ out.status = 200 /\ "fetch" \in out.work
    /\ Len(out.body.reviews) >= 2
    /\ \A i \in DOMAIN out.body.reviews : IsError(out.body.reviews[i])
    /\ dailyGameCache.gameData = out.body

\* --------------------------------------------------------------- C19
\* C19 as claimed: a request whose selected entry has no review row and
\* whose review-url query succeeded is answered 200 with reviews [], that
\* payload is cached, and every request that starts later on the date is
\* answered with that payload from the cache.
C19_Built ==
    (/\ Sent /\ out.game # 0
     /\ Len(ReviewRows(out.game)) = 0
     /\ "urls" \in out.work /\ "urlsFailed" \notin out.work) =>
        /\ out.status = 200
        /\ out.body.title = GameTitle(out.game)
        /\ out.body.reviews = <<>>
        /\ dailyGameCache = [date |-> out.todayStr, gameData |-> out.body]

C20_OneEntry ==
    (Sent /\ Active(games) # {} /\ ~acq.failed) =>
        /\ out.status = 200
        /\ FullPayload(out.body)
        /\ \E g \in Active(games) :
              /\ out.body.title = GameTitle(g)
              /\ out.body.appId = SteamAppId(g)
        /\ Len(out.body.reviews) <= ClueLimit

C20_Witness ==
    /\ out.status = 200 /\ "fetch" \in out.work
    /\ acq.pc = "returned" /\ acq.n > ClueLimit
    /\ Len(out.body.reviews) = ClueLimit
    /\ out.body.title = GameTitle(out.game)
    /\ out.body.appId = SteamAppId(out.game)

\* --------------------------------------------------------------- C21
\* C21: every request that is in the handler is eventually answered, even
\* when one clue source never responds.
C21_EventuallyAnswered ==
    \A r \in Requests : InFlight(r) ~> ~InFlight(r)

\* --------------------------------------------------------------- C22
\* C22: for every date at most one request is in a build (past the cache
\* check, not yet answered) at any time.
C22_OneBuild ==
    \A d \in Days :
        Cardinality({r \in Requests : InFlight(r) /\ req[r].todayStr = d}) <= 1

\* --------------------------------------------------------------- C23
\* C23: a caller abandoning its request leaves the request's position and
\* locals as they were; an abandoned request leaves the handler only by
\* ending its build, which writes a slot keyed by its today that holds data
\* (what the cache check of the next request on that date tests), or by a
\* restart of the process.
C23_Step ==
    \A r \in Requests :
        /\ ("abandoned" \notin req[r].work /\ "abandoned" \in req'[r].work) =>
              /\ req'[r].pc = req[r].pc
              /\ req'[r].todayStr = req[r].todayStr
              /\ req'[r].game = req[r].game
        /\ ("abandoned" \in req[r].work /\ req'[r].pc = "idle") =>
              \/ dailyGameCache' = EmptySlot /\ out'.status = 0
              \/ /\ out'.status # 0
                 /\ "abandoned" \in out'.work
                 /\ dailyGameCache'.date = req[r].todayStr
                 /\ IsData(dailyGameCache'.gameData)
        /\ (InFlight(r) /\ req'[r].pc = "idle" /\ out'.status = 0) =>
              dailyGameCache' = EmptySlot

C23_AbandonedBuild == [][C23_Step]_vars

C23_Witness ==
    /\ out.status = 200 /\ "abandoned" \in out.work
    /\ "fetch" \in out.work
    /\ out.todayStr = today
    /\ dailyGameCache = [date |-> today, gameData |-> out.body]

\* --------------------------------------------------------------- C27
\* C27: a 200 response on a date carries the title and the appId of the
\* 200 response sent before it on that date.
C27_Step ==
    (/\ out'.status = 200
     /\ lastOk.date = out'.todayStr
     /\ IsData(lastOk.body)) =>
        /\ out'.body.title = lastOk.body.title
        /\ out'.body.appId = lastOk.body.appId

C27_OneTitlePerDay == [][C27_Step]_vars

\* --------------------------------------------------------------- C28
\* C28: a build that ends by caching an error marker and answering 500 has
\* run no UPDATE of a last-selected date.
C28_NoUpdateOnError ==
    (/\ Sent /\ out.status = 500 /\ out.work # {}
     /\ dailyGameCache.date = out.todayStr
     /\ IsError(dailyGameCache.gameData)) =>
        "update" \notin out.work

\* --------------------------------------------------------------- C30
\* C30: within one process every write of the cache slot leaves a date-key
\* that is not earlier than the one it replaces.
C30_Step ==
    \/ dailyGameCache' = EmptySlot
    \/ dailyGameCache'.date >= dailyGameCache.date

C30_KeyMonotonic == [][C30_Step]_vars

\* --------------------------------------------------------------- C24
\* C24: parsing fetched markup gives a record of exactly the six fields and
\* no error flag, in which every field depends on its own elements only:
\* the extracted value when they hold one, its own default when they do not.
C24_Parse ==
    calc.fn = "parse" =>
        LET m == calc.arg
            r == calc.result
            n1 == Trim(m.name1)
            n2 == Trim(m.name2)
            a1 == m.avatar1 \notin {"undefined", ""}
            a2 == m.avatar2 \notin {"undefined", ""}
            rc == Trim(m.rec)
            dt == Remove(Trim(m.date), "Posted: ")
        IN  /\ DOMAIN r = {"reviewerName", "reviewerAvatarUrl",
                           "recommendation", "playtime", "datePosted",
                           "reviewText"}
            /\ r.reviewerName = IF n1 # <<>> THEN n1
                                ELSE IF n2 # <<>> THEN n2
                                ELSE <<"A Steam User">>
            /\ r.reviewerAvatarUrl = IF a1 THEN m.avatar1
                                     ELSE IF a2 THEN m.avatar2
                                     ELSE "null"
            /\ r.recommendation = IF rc # <<>> THEN rc
                                  ELSE <<"Not specified">>
            /\ r.playtime = Playtime(m.playTime)
            /\ (Trim(m.playTime) = <<>>) =>
                   r.playtime = <<"Playtime not shown">>
            /\ r.datePosted = IF dt # <<>> THEN dt ELSE <<"Date not found">>
            /\ (m.body = NoData \/ m.body = [html |-> <<>>]) =>
                   r.reviewText = <<"Could not load review text.">>
            /\ (m.body = [html |-> <<"a", "<br>", "b", "<br>">>]) =>
                   r.reviewText = <<"a", "\n", "b">>

\* a page with no name, no avatar, no date and no body, whose stance and
\* playtime were extracted all the same
C24_Witness ==
    /\ calc.fn = "parse"
    /\ calc.arg.name1 = <<>> /\ calc.arg.name2 = <<" ">>
    /\ calc.arg.avatar1 = "undefined" /\ calc.arg.avatar2 = ""
    /\ calc.arg.date = <<>> /\ calc.arg.body = NoData
    /\ calc.result.reviewerName = <<"A Steam User">>
    /\ calc.result.reviewerAvatarUrl = "null"
    /\ calc.result.recommendation = <<"Recommended">>
    /\ calc.result.playtime = <<"5">>
    /\ calc.result.datePosted = <<"Date not found">>
    /\ calc.result.reviewText = <<"Could not load review text.">>

\* --------------------------------------------------------------- C25
\* C25: when the trimmed playtime text holds a parenthesised
\* '... at review time' phrase the playtime is that phrase's value; otherwise,
\* when the text holds a '/', the candidate is the text between the first '/'
\* and the next '/' (or the end), trimmed, cut before its first ' on record'
\* and trimmed again; a candidate that is neither empty nor exactly 'hrs'
\* becomes the playtime, with ' hrs' appended unless it already contains
\* 'hrs'; in every other case the playtime is 'Playtime not shown'.
C25_Playtime ==
    calc.fn = "playtime" =>
        LET t == Trim(calc.arg)
            p == calc.result
            phrase == \E i, j \in DOMAIN t : GroupAt(t, i, j)
            a == IndexOf(t, "/")
            rest == SubSeq(t, a + 1, Len(t))
            seg == SubSeq(rest, 1, IndexOf(rest, "/") - 1)
            c == Trim(SplitFirst(Trim(seg), " on record"))
        IN  /\ phrase => \E i, j \in DOMAIN t :
                             GroupAt(t, i, j) /\ p = SubSeq(t, i + 1, j - 1)
            /\ ~phrase =>
                 IF a > Len(t) \/ c = <<>> \/ c = <<"hrs">>
                 THEN p = <<"Playtime not shown">>
                 ELSE /\ Includes(p, "hrs")
                      /\ p = IF Includes(c, "hrs") THEN c
                             ELSE c \o <<" ", "hrs">>

\* a text with a '/' and no ' on record' gave a playtime with the suffix
C25_Witness ==
    /\ calc.fn = "playtime"
    /\ calc.arg = <<"5", " ", "/", "5">>
    /\ calc.result = <<"5", " ", "hrs">>

\* C25 as stated: without the phrase, a text of the form
\* 'current / total on record' gives the part between '/' and ' on record'
\* and always contains 'hrs'; a text of neither form gives the default.
C25_AsClaimed ==
    calc.fn = "playtime" =>
        LET t == Trim(calc.arg)
            p == calc.result
            phrase == \E i, j \in DOMAIN t : GroupAt(t, i, j)
            a == IndexOf(t, "/")
            rest == SubSeq(t, a + 1, Len(t))
            form == a <= Len(t) /\ Includes(rest, " on record")
            total == Trim(SplitFirst(rest, " on record"))
        IN  /\ phrase => \E i, j \in DOMAIN t :
                             GroupAt(t, i, j) /\ p = SubSeq(t, i + 1, j - 1)
            /\ (~phrase /\ form) =>
                   /\ Includes(p, "hrs")
                   /\ p \in {total, total \o <<" ", "hrs">>}
            /\ (~phrase /\ ~form) => p = <<"Playtime not shown">>

\* --------------------------------------------------------------- C26
\* C26: the search returns only names of the app-list cache whose
\* normalised form (lower-cased, stripped of every non-alphanumeric
\* character) contains the normalised term, every name whose normalised
\* form starts with the term before every name that merely contains it; a
\* term of fewer than 2 characters gives the empty list.
C26_Search ==
    calc.fn = "search" =>
        LET r == calc.result
            t == normalizeStringServer(Trim(calc.arg.term))
            N(i) == normalizeStringServer(r[i])
        IN  /\ \A i \in DOMAIN r :
                  /\ \E k \in DOMAIN calc.arg.cache : calc.arg.cache[k] = r[i]
                  /\ Contains(N(i), t)
            /\ \A i, j \in DOMAIN r :
                  (i < j /\ StartsWith(N(j), t)) => StartsWith(N(i), t)
            /\ (Len(Trim(calc.arg.term)) < 2) => r = <<>>

\* the term 'b-' found 'b' and 'aB': the name that starts with the
\* normalised term comes first although 'ab' sorts before 'b'
C26_Witness ==
    /\ calc.fn = "search"
    /\ calc.arg.term = <<"b", "-">>
    /\ calc.result = << <<"b">>, <<"a", "B">> >>

\* --------------------------------------------------------------- C29
\* C29: every payload built for an entry of the seed list, cached and sent,
\* has exactly SeedRows clue records.
C29_SixClues ==
    (Sent /\ out.status = 200 /\ "urls" \in out.work) =>
        /\ Len(out.body.reviews) = SeedRows
        /\ Len(dailyGameCache.gameData.reviews) = SeedRows

\* --------------------------------------------------------------- C31
\* C31: when seeding has finished, every game whose title is in the seed
\* list is still in the table with its id, last-selected date and active
\* flag, and every game whose title is not in the list is gone together
\* with its review rows.
C31_SeedPreserves ==
    seed.pc = "done" =>
        /\ \A g \in Ids \ seed.obsolete : g \notin seed.deleted
        /\ \A g \in seed.obsolete : g \in seed.deleted /\ seed.rows[g] = 0

\* --------------------------------------------------------------- C32
\* C32: in a started game of n >= 1 clues that is not over, a guess that is
\* not blank is the next attempt, and attempts never exceed min(6, n); the
\* game is won at that guess exactly when its normalised text equals the
\* normalised title, lost when it is wrong and is attempt number min(6, n),
\* and goes on otherwise.
C32_Step ==
    ( /\ page.guessesLeft # Undefined
      /\ page.outcome = "none"
      /\ Trim(page.input) # <<>>
      /\ page'.event \in {"ignored", "empty", "critical", "correct",
                          "incorrect"} ) =>
        LET n == Len(page.currentGame.reviews)
            most == IF n < MaxGuesses THEN n ELSE MaxGuesses
            hit == normalizeString(Trim(page.input))
                     = normalizeString(TitleText(page.currentGame.title))
            k == Len(page'.shareGrid)
        IN  /\ n >= 1
            /\ k = Len(page.shareGrid) + 1
            /\ k <= most
            /\ page'.outcome = IF hit THEN "win"
                               ELSE IF k = most THEN "lose" ELSE "none"

C32_Attempts == [][C32_Step]_vars

\* a game of 3 clues lost at the third wrong guess, with guesses left
C32_Witness ==
    /\ page.outcome = "lose"
    /\ Len(page.currentGame.reviews) = 3
    /\ page.shareGrid = <<"R", "R", "R">>
    /\ page.guessesLeft = 3

\* --------------------------------------------------------------- C33
\* C33: while a started game is not over, currentReviewIndex is the number
\* of wrong guesses, guessesLeft is 6 minus that number and lies in 1..6,
\* and the clues displayed are exactly 1..currentReviewIndex+1, none beyond
\* the list; once the game is over all n clues are displayed.
C33_Reveal ==
    /\ (page.guessesLeft # Undefined /\ page.outcome = "none") =>
          LET wrong == Len(page.previousGuesses)
          IN  /\ page.currentReviewIndex = wrong
              /\ page.guessesLeft = MaxGuesses - wrong
              /\ page.guessesLeft \in 1..MaxGuesses
              /\ page.shown = 1..(page.currentReviewIndex + 1)
              /\ page.currentReviewIndex + 1 <= Len(page.currentGame.reviews)
    /\ page.outcome # "none" =>
          page.shown = 1..Len(page.currentGame.reviews)

\* two wrong guesses made, the third clue on display
C33_Witness ==
    /\ page.outcome = "none"
    /\ Len(page.previousGuesses) = 2
    /\ page.shown = {1, 2, 3}
    /\ page.guessesLeft = 4

\* --------------------------------------------------------------- C34
\* C34: once the game has ended in a win or a loss, no step changes
\* guessesLeft, currentReviewIndex, the share grid, the list of previous
\* guesses or the outcome.
C34_Step ==
    page.outcome # "none" =>
        /\ page'.guessesLeft = page.guessesLeft
        /\ page'.currentReviewIndex = page.currentReviewIndex
        /\ page'.shareGrid = page.shareGrid
        /\ page'.previousGuesses = page.previousGuesses
        /\ page'.outcome = page.outcome

C34_OverIsFinal == [][C34_Step]_vars

\* a guess event arrived after a win and was ignored
C34_Witness ==
    /\ page.outcome = "win"
    /\ page.event = "ignored"
    /\ page.shareGrid = <<"R", "G">>

\* --------------------------------------------------------------- C35
\* C35: a guess event that finds the input empty or of white space only
\* changes neither guessesLeft, currentReviewIndex, the share grid, the list
\* of previous guesses nor the clues on display.
C35_Step ==
    ( /\ Trim(page.input) = <<>>
      /\ page'.event \in {"ignored", "empty", "critical", "correct",
                          "incorrect"} ) =>
        /\ page'.guessesLeft = page.guessesLeft
        /\ page'.currentReviewIndex = page.currentReviewIndex
        /\ page'.shareGrid = page.shareGrid
        /\ page'.previousGuesses = page.previousGuesses
        /\ page'.shown = page.shown

C35_BlankGuess == [][C35_Step]_vars

\* a running game took a guess event on an input of one blank
C35_Witness ==
    /\ page.event = "empty"
    /\ page.input = <<" ">>
    /\ page.guessesLeft = 5
    /\ page.outcome = "none"

\* --------------------------------------------------------------- C36
\* C36: a page that received a 200 payload with reviews: [] never
\* initialises a game: the guess input is disabled, guessesLeft and
\* currentReviewIndex have no value, no clue is displayed and no guess is
\* recorded.
C36_EmptyPayload ==
    ( /\ page.status = 200
      /\ page.currentGame # NoData
      /\ page.currentGame.reviews = <<>> ) =>
        /\ page.disabled
        /\ page.guessesLeft = Undefined
        /\ page.currentReviewIndex = Undefined
        /\ page.shown = {}
        /\ page.shareGrid = <<>>
        /\ page.previousGuesses = <<>>
        /\ page.outcome = "none"

\* such a page took a guess event and ignored it
C36_Witness ==
    /\ page.status = 200
    /\ page.currentGame # NoData
    /\ page.currentGame.reviews = <<>>
    /\ page.event = "ignored"

\* --------------------------------------------------------------- C37
\* C37: a request starts a refresh of the app list only when the cache is
\* empty or its fetch time lies more than 24 hours back, as the refresh at
\* start does; a refresh that fails changes neither the cached list nor the
\* fetch time, and the request that awaited it is answered from that list.
C37_Step ==
    /\ \A r \in Requests :
          (apps.search[r] = "idle" /\ apps'.search[r] = "fetching") =>
              \/ apps.steamAppsCache = <<>>
              \/ apps.now - apps.lastSteamAppsFetchTime > CacheDuration
    /\ apps.pc = "starting" => apps.steamAppsCache = <<>>
    /\ apps'.outcome = "failed" =>
          /\ apps'.steamAppsCache = apps.steamAppsCache
          /\ apps'.lastSteamAppsFetchTime = apps.lastSteamAppsFetchTime
          /\ apps.pc = "listening" =>
                 apps'.served = [names |-> apps.steamAppsCache]

C37_Refresh == [][C37_Step]_vars

\* a stale, non-empty list was served after the refresh failed
C37_Witness ==
    /\ apps.outcome = "failed"
    /\ apps.steamAppsCache # <<>>
    /\ apps.now - apps.lastSteamAppsFetchTime > CacheDuration
    /\ apps.served = [names |-> apps.steamAppsCache]

\* --------------------------------------------------------------- C38
\* C38: the search returns no more names than the limit of the query, at
\* most 15 when the limit is missing, not a number or zero, and none when
\* the limit is negative.
C38_WithinLimit ==
    calc.fn = "search" =>
        LET q == calc.arg.limit
        IN  Len(calc.result) <= IF q = 0 THEN DefaultLimit
                                ELSE IF q < 0 THEN 0 ELSE q

====
